---- MODULE Spec2Model ----
(***************************************************************************)
(* Code Visualizer AI: the response normaliser of analyzer.py              *)
(* (safe_json_loads and the three analyze_*_with_llm operations) and the   *)
(* session state machine of streamlit_app.py.                              *)
(*                                                                         *)
(* Text is a sequence of one-character strings.  A Python/JSON value is a  *)
(* tagged record: None, bool, int, str (a sequence of characters), list    *)
(* (a sequence of values) and dict (a function from keys to values).       *)
(***************************************************************************)
EXTENDS Integers, Sequences, FiniteSets, TLC

(***************************************************************************)
(* Python values                                                           *)
(***************************************************************************)
PyNone == [t |-> "none"]
PyBool(b) == [t |-> "bool", v |-> b]
PyInt(n) == [t |-> "int", v |-> n]
PyStr(cs) == [t |-> "str", v |-> cs]
PyList(xs) == [t |-> "list", v |-> xs]
PyDict(f) == [t |-> "dict", v |-> f]

EmptyStr == PyStr(<< >>)
EmptyList == PyList(<< >>)
EmptyDict == PyDict(<< >>)

IsDict(x) == x.t = "dict"
IsList(x) == x.t = "list"
IsStr(x) == x.t = "str"
IsInt(x) == x.t = "int"

\* Python truthiness, as used by `x or default` and `if not x`.
Truthy(x) ==
  CASE x.t = "none" -> FALSE
    [] x.t = "bool" -> x.v
    [] x.t = "int" -> x.v # 0
    [] x.t = "str" -> Len(x.v) > 0
    [] x.t = "list" -> Len(x.v) > 0
    [] x.t = "dict" -> DOMAIN x.v # {}

\* `a or b`
PyOr(a, b) == IF Truthy(a) THEN a ELSE b

\* dict.get(key, default)
DictGet(d, key, default) == IF key \in DOMAIN d.v THEN d.v[key] ELSE default

\* dict.setdefault(key, default), as the dictionary it leaves behind
DictSetDefault(d, key, default) ==
  IF key \in DOMAIN d.v THEN d ELSE PyDict((key :> default) @@ d.v)

\* d[key] = value
DictSet(d, key, value) ==
  PyDict([k \in DOMAIN d.v \cup {key} |-> IF k = key THEN value ELSE d.v[k]])

(***************************************************************************)
(* Characters                                                              *)
(***************************************************************************)
QUOTE == "\""
NL == "\n"
\* the backtick cannot be written in a TLA+ string: it is named instead
BACKTICK == "BACKTICK"
Whitespace == {" ", NL, "\t", "\r"}
Digits == <<"0", "1", "2", "3", "4", "5", "6", "7", "8", "9">>
DigitSet == {Digits[i] : i \in 1..10}
DigitVal(c) == (CHOOSE i \in 1..10 : Digits[i] = c) - 1
Letters ==
  {"a", "b", "c", "d", "e", "f", "g", "h", "i", "j", "k", "l", "m", "n", "o",
   "p", "q", "r", "s", "t", "u", "v", "w", "x", "y", "z"}
\* the class [a-zA-Z0-9] of the fence pattern
AlphaNum == Letters \cup DigitSet

CharAt(s, i) == IF i >= 1 /\ i <= Len(s) THEN s[i] ELSE ""

RECURSIVE SkipWs(_, _)
SkipWs(s, i) ==
  IF i <= Len(s) /\ s[i] \in Whitespace THEN SkipWs(s, i + 1) ELSE i

\* s.find(c): the first index of c, 0 when there is none (Python's -1)
RECURSIVE FindFrom(_, _, _)
FindFrom(s, c, i) ==
  IF i > Len(s) THEN 0
  ELSE IF s[i] = c THEN i ELSE FindFrom(s, c, i + 1)

Find(s, c) == FindFrom(s, c, 1)

\* s.rfind(c): the last index of c, 0 when there is none
RECURSIVE RFindFrom(_, _, _)
RFindFrom(s, c, i) ==
  IF i < 1 THEN 0
  ELSE IF s[i] = c THEN i ELSE RFindFrom(s, c, i - 1)

RFind(s, c) == RFindFrom(s, c, Len(s))

\* s.strip()
RECURSIVE RSkipWs(_, _)
RSkipWs(s, i) ==
  IF i >= 1 /\ s[i] \in Whitespace THEN RSkipWs(s, i - 1) ELSE i

Strip(s) == SubSeq(s, SkipWs(s, 1), RSkipWs(s, Len(s)))

(***************************************************************************)
(* json.dumps: the compact JSON text of a value.  Keys are written in the  *)
(* order KeyPick chooses them.                                             *)
(***************************************************************************)
RECURSIVE IntText(_)
IntText(n) ==
  IF n < 0 THEN <<"-">> \o IntText(0 - n)
  ELSE IF n < 10 THEN <<Digits[n + 1]>>
  ELSE IntText(n \div 10) \o <<Digits[(n % 10) + 1]>>

KeyPick(S) == CHOOSE k \in S : TRUE

RECURSIVE json_dumps(_)
RECURSIVE DumpItems(_, _)
RECURSIVE DumpMembers(_, _)
DumpItems(xs, i) ==
  IF i > Len(xs) THEN << >>
  ELSE (IF i > 1 THEN <<",">> ELSE << >>) \o json_dumps(xs[i])
       \o DumpItems(xs, i + 1)

DumpMembers(f, keys) ==
  IF keys = {} THEN << >>
  ELSE LET k == KeyPick(keys)
       IN  (IF keys # DOMAIN f THEN <<",">> ELSE << >>)
           \o <<QUOTE>> \o k \o <<QUOTE, ":">> \o json_dumps(f[k])
           \o DumpMembers(f, keys \ {k})

json_dumps(x) ==
  CASE x.t = "none" -> <<"n", "u", "l", "l">>
    [] x.t = "bool" -> IF x.v THEN <<"t", "r", "u", "e">>
                       ELSE <<"f", "a", "l", "s", "e">>
    [] x.t = "int" -> IntText(x.v)
    [] x.t = "str" -> <<QUOTE>> \o x.v \o <<QUOTE>>
    [] x.t = "list" -> <<"[">> \o DumpItems(x.v, 1) \o <<"]">>
    [] x.t = "dict" -> <<"{">> \o DumpMembers(x.v, DOMAIN x.v) \o <<"}">>

(***************************************************************************)
(* json.loads: the strict parser.  A parse result is                       *)
(* [ok, val, pos]: pos is the index after the value.                       *)
(***************************************************************************)
Fail(i) == [ok |-> FALSE, val |-> PyNone, pos |-> i]
Ok(v, i) == [ok |-> TRUE, val |-> v, pos |-> i]

\* s[i..] starts with the word w
RECURSIVE StartsWithAt(_, _, _)
StartsWithAt(s, i, w) ==
  IF w = << >> THEN TRUE
  ELSE /\ i <= Len(s)
       /\ s[i] = Head(w)
       /\ StartsWithAt(s, i + 1, Tail(w))

RECURSIVE DigitsEnd(_, _)
DigitsEnd(s, i) ==
  IF i <= Len(s) /\ s[i] \in DigitSet THEN DigitsEnd(s, i + 1) ELSE i

RECURSIVE DigitsValue(_, _, _, _)
DigitsValue(s, i, j, acc) ==
  IF i >= j THEN acc ELSE DigitsValue(s, i + 1, j, acc * 10 + DigitVal(s[i]))

\* an integer literal: -?(0|[1-9][0-9]*)
ParseNumber(s, i) ==
  LET neg == CharAt(s, i) = "-"
      b == IF neg THEN i + 1 ELSE i
      e == DigitsEnd(s, b)
  IN  IF e = b THEN Fail(i)
      ELSE IF s[b] = "0" /\ e > b + 1 THEN Ok(PyInt(0), b + 1)
      ELSE LET n == DigitsValue(s, b, e, 0)
           IN  Ok(PyInt(IF neg THEN 0 - n ELSE n), e)

\* a string literal: the text holds no escapes; a raw control character
\* inside a string is an error
RECURSIVE StringEnd(_, _)
StringEnd(s, i) ==
  IF i > Len(s) THEN 0
  ELSE IF s[i] = QUOTE THEN i
  ELSE IF s[i] \in {NL, "\t", "\r"} THEN 0
  ELSE StringEnd(s, i + 1)

ParseString(s, i) ==
  LET e == StringEnd(s, i + 1)
  IN  IF e = 0 THEN Fail(i) ELSE Ok(PyStr(SubSeq(s, i + 1, e - 1)), e + 1)

RECURSIVE ParseValue(_, _)
RECURSIVE ParseItems(_, _, _)
RECURSIVE ParseMembers(_, _, _)

\* after "[" and at least one expected value
ParseItems(s, i, acc) ==
  LET r == ParseValue(s, i)
      j == SkipWs(s, r.pos)
  IN  IF ~r.ok THEN Fail(i)
      ELSE IF CharAt(s, j) = "]" THEN Ok(PyList(Append(acc, r.val)), j + 1)
      ELSE IF CharAt(s, j) = ","
        THEN ParseItems(s, SkipWs(s, j + 1), Append(acc, r.val))
      ELSE Fail(j)

\* after "{" and at least one expected member
ParseMembers(s, i, acc) ==
  IF CharAt(s, i) # QUOTE THEN Fail(i)
  ELSE
    LET k == ParseString(s, i)
        c == SkipWs(s, k.pos)
        r == ParseValue(s, SkipWs(s, c + 1))
        j == SkipWs(s, r.pos)
        acc2 == [x \in DOMAIN acc \cup {k.val.v} |->
                   IF x = k.val.v THEN r.val ELSE acc[x]]
    IN  IF ~k.ok \/ CharAt(s, c) # ":" THEN Fail(i)
        ELSE IF ~r.ok THEN Fail(c)
        ELSE IF CharAt(s, j) = "}" THEN Ok(PyDict(acc2), j + 1)
        ELSE IF CharAt(s, j) = ","
          THEN ParseMembers(s, SkipWs(s, j + 1), acc2)
        ELSE Fail(j)

ParseValue(s, i) ==
  LET c == CharAt(s, i)
  IN  CASE c = "{" ->
             LET j == SkipWs(s, i + 1)
             IN  IF CharAt(s, j) = "}" THEN Ok(EmptyDict, j + 1)
                 ELSE ParseMembers(s, j, << >>)
        [] c = "[" ->
             LET j == SkipWs(s, i + 1)
             IN  IF CharAt(s, j) = "]" THEN Ok(EmptyList, j + 1)
                 ELSE ParseItems(s, j, << >>)
        [] c = QUOTE -> ParseString(s, i)
        [] c = "-" \/ c \in DigitSet -> ParseNumber(s, i)
        [] c = "n" /\ StartsWithAt(s, i, <<"n", "u", "l", "l">>) ->
             Ok(PyNone, i + 4)
        [] c = "t" /\ StartsWithAt(s, i, <<"t", "r", "u", "e">>) ->
             Ok(PyBool(TRUE), i + 4)
        [] c = "f" /\ StartsWithAt(s, i, <<"f", "a", "l", "s", "e">>) ->
             Ok(PyBool(FALSE), i + 5)
        [] OTHER -> Fail(i)

\* json.loads(text): [ok, val]; ok = FALSE is JSONDecodeError
json_loads(s) ==
  LET r == ParseValue(s, SkipWs(s, 1))
  IN  IF r.ok /\ SkipWs(s, r.pos) = Len(s) + 1
        THEN [ok |-> TRUE, val |-> r.val]
        ELSE [ok |-> FALSE, val |-> PyNone]

(***************************************************************************)
(* _strip_code_fences, _extract_json_block                                 *)
(***************************************************************************)
Fence == <<BACKTICK, BACKTICK, BACKTICK>>

RECURSIVE AlphaNumEnd(_, _)
AlphaNumEnd(s, i) ==
  IF i <= Len(s) /\ s[i] \in AlphaNum THEN AlphaNumEnd(s, i + 1) ELSE i

\* re.sub(r"^```[a-zA-Z0-9]*\n|\n```$", "", s): the opening fence line is
\* removed when the tag is followed by a newline, the closing fence when a
\* newline precedes it and the opening match did not consume that newline
FenceSub(s) ==
  LET e == AlphaNumEnd(s, 4)
      p == IF StartsWithAt(s, 1, Fence) /\ CharAt(s, e) = NL THEN e ELSE 0
      n == Len(s)
      q == IF n - 3 > p /\ StartsWithAt(s, n - 3, <<NL>> \o Fence)
             THEN n - 4 ELSE n
  IN  SubSeq(s, p + 1, q)

_strip_code_fences(text) ==
  IF StartsWithAt(Strip(text), 1, Fence) THEN FenceSub(Strip(text)) ELSE text

\* _extract_json_block ending the span at the first "}"
_extract_json_block_first_close(text) ==
  LET start == Find(text, "{")
      end == Find(text, "}")
  IN  IF start # 0 /\ end # 0 /\ end > start
        THEN PyStr(SubSeq(text, start, end))
        ELSE PyNone

\* Optional[str]: PyStr of the span from the first "{" to the last "}", or
\* PyNone
_extract_json_block(text) ==
  LET start == Find(text, "{")
      end == RFind(text, "}")
  IN  IF start # 0 /\ end # 0 /\ end > start
        THEN PyStr(SubSeq(text, start, end))
        ELSE PyNone

(***************************************************************************)
(* repair_json of the json_repair package: a tolerant parser that skips    *)
(* leading prose, stray and trailing commas, closes what the text leaves   *)
(* open, reads unquoted words, and writes the value it found back as JSON  *)
(* text.  It returns the empty text when it finds no value.                *)
(* A tolerant parse result is [found, val, pos].                           *)
(***************************************************************************)
None(i) == [found |-> FALSE, val |-> EmptyStr, pos |-> i]
Found(v, i) == [found |-> TRUE, val |-> v, pos |-> i]

RECURSIVE SkipWsCommas(_, _)
SkipWsCommas(s, i) ==
  IF i <= Len(s) /\ (s[i] \in Whitespace \/ s[i] = ",")
    THEN SkipWsCommas(s, i + 1) ELSE i

\* a quoted string; one the text leaves open runs to the end of the text
RString(s, i) ==
  LET e == FindFrom(s, QUOTE, i + 1)
  IN  IF e = 0 THEN Found(PyStr(SubSeq(s, i + 1, Len(s))), Len(s) + 1)
      ELSE Found(PyStr(SubSeq(s, i + 1, e - 1)), e + 1)

\* an unquoted word: a literal, or a string of letters and digits
RWord(s, i) ==
  LET e == AlphaNumEnd(s, i)
      w == SubSeq(s, i, e - 1)
  IN  CASE w = <<"n", "u", "l", "l">> -> Found(PyNone, e)
        [] w = <<"t", "r", "u", "e">> -> Found(PyBool(TRUE), e)
        [] w = <<"f", "a", "l", "s", "e">> -> Found(PyBool(FALSE), e)
        [] OTHER -> Found(PyStr(w), e)

RNumber(s, i) ==
  LET r == ParseNumber(s, i)
  IN  IF r.ok THEN Found(r.val, r.pos) ELSE None(i)

RECURSIVE RValue(_, _, _)
RECURSIVE RArray(_, _, _)
RECURSIVE RObject(_, _, _)

RArray(s, i, acc) ==
  LET j == SkipWsCommas(s, i)
      r == RValue(s, j, TRUE)
  IN  IF j > Len(s) THEN Found(PyList(acc), j)
      ELSE IF s[j] = "]" THEN Found(PyList(acc), j + 1)
      ELSE IF r.found THEN RArray(s, r.pos, Append(acc, r.val))
      ELSE RArray(s, j + 1, acc)

RObject(s, i, acc) ==
  LET j == SkipWsCommas(s, i)
      k == IF CharAt(s, j) = QUOTE THEN RString(s, j) ELSE RWord(s, j)
      c == SkipWs(s, k.pos)
      r == RValue(s, IF CharAt(s, c) = ":" THEN c + 1 ELSE c, TRUE)
      acc2 == [x \in DOMAIN acc \cup {k.val.v} |->
                 IF x = k.val.v THEN r.val ELSE acc[x]]
  IN  IF j > Len(s) THEN Found(PyDict(acc), j)
      ELSE IF s[j] = "}" THEN Found(PyDict(acc), j + 1)
      ELSE IF s[j] = QUOTE \/ s[j] \in Letters
        THEN RObject(s, r.pos, acc2)
      ELSE RObject(s, j + 1, acc)

RValue(s, i, inner) ==
  LET j == SkipWs(s, i)
      c == CharAt(s, j)
  IN  CASE j > Len(s) -> None(j)
        [] c = "{" -> RObject(s, j + 1, << >>)
        [] c = "[" -> RArray(s, j + 1, << >>)
        [] inner /\ c = QUOTE -> RString(s, j)
        [] inner /\ (c = "-" \/ c \in DigitSet) -> RNumber(s, j)
        [] inner /\ c \in Letters -> RWord(s, j)
        [] inner -> None(j)
        [] OTHER -> RValue(s, j + 1, FALSE)

repair_json(json_str) ==
  LET parsed(strict) ==
        IF strict.ok THEN strict.val ELSE RValue(json_str, 1, FALSE).val
      text(value) == IF value = EmptyStr THEN << >> ELSE json_dumps(value)
  IN  text(parsed(json_loads(json_str)))

(***************************************************************************)
(* safe_json_loads: [ok, val]; ok = FALSE is the JSONDecodeError of the    *)
(* final parse                                                             *)
(***************************************************************************)
\* lines 140-141: the text handed to the repair pass
candidate(content) ==
  LET block_or(clean) == PyOr(_extract_json_block(clean), PyStr(clean)).v
  IN  block_or(_strip_code_fences(content))

\* safe_json_loads parsing the candidate without the repair pass
safe_json_loads_no_repair(content) ==
  LET fallback(direct) ==
        IF direct.ok THEN direct ELSE json_loads(candidate(content))
  IN  fallback(json_loads(content))

safe_json_loads(content) ==
  LET repaired == repair_json(candidate(content))
      fallback(direct) == IF direct.ok THEN direct ELSE json_loads(repaired)
  IN  fallback(json_loads(content))

(***************************************************************************)
(* The keys and the default strings of analyzer.py, spelled as text        *)
(***************************************************************************)
K_step == <<"s", "t", "e", "p">>
K_line == <<"l", "i", "n", "e">>
K_operation == <<"o", "p", "e", "r", "a", "t", "i", "o", "n">>
K_explanation == <<"e", "x", "p", "l", "a", "n", "a", "t", "i", "o", "n">>
K_variables == <<"v", "a", "r", "i", "a", "b", "l", "e", "s">>
K_call_stack == <<"c", "a", "l", "l", "_", "s", "t", "a", "c", "k">>
K_outputs == <<"o", "u", "t", "p", "u", "t", "s">>
K_memory_state == <<"m", "e", "m", "o", "r", "y", "_", "s", "t", "a", "t", "e">>
K_control_flow == <<"c", "o", "n", "t", "r", "o", "l", "_", "f", "l", "o", "w">>
K_data_structures == <<"d", "a", "t", "a", "_", "s", "t", "r", "u", "c", "t", "u", "r", "e", "s">>
K_execution_context == <<"e", "x", "e", "c", "u", "t", "i", "o", "n", "_", "c", "o", "n", "t", "e", "x", "t">>
K_next_action == <<"n", "e", "x", "t", "_", "a", "c", "t", "i", "o", "n">>
K_language == <<"l", "a", "n", "g", "u", "a", "g", "e">>
K_summary == <<"s", "u", "m", "m", "a", "r", "y">>
K_steps == <<"s", "t", "e", "p", "s">>
K_issues == <<"i", "s", "s", "u", "e", "s">>
K_type == <<"t", "y", "p", "e">>
K_title == <<"t", "i", "t", "l", "e">>
K_suggestion == <<"s", "u", "g", "g", "e", "s", "t", "i", "o", "n">>
K_corrected_code == <<"c", "o", "r", "r", "e", "c", "t", "e", "d", "_", "c", "o", "d", "e">>
K_functions == <<"f", "u", "n", "c", "t", "i", "o", "n", "s">>
K_name == <<"n", "a", "m", "e">>
K_time_complexity == <<"t", "i", "m", "e", "_", "c", "o", "m", "p", "l", "e", "x", "i", "t", "y">>
K_space_complexity == <<"s", "p", "a", "c", "e", "_", "c", "o", "m", "p", "l", "e", "x", "i", "t", "y">>
K_notes == <<"n", "o", "t", "e", "s">>
K_loops == <<"l", "o", "o", "p", "s">>
K_recursions == <<"r", "e", "c", "u", "r", "s", "i", "o", "n", "s">>

S_logic == PyStr(<<"l", "o", "g", "i", "c">>)
S_potential_issue == PyStr(<<"P", "o", "t", "e", "n", "t", "i", "a", "l", " ", "i", "s", "s", "u", "e">>)
S_main == PyStr(<<"m", "a", "i", "n">>)
S_O1 == PyStr(<<"O", "(", "1", ")">>)

(***************************************************************************)
(* Python built-ins the shaping code applies to the model's values         *)
(***************************************************************************)
Returned(v) == [ok |-> TRUE, val |-> v, err |-> ""]
Raised(e) == [ok |-> FALSE, val |-> PyNone, err |-> e]

\* x.get / x.setdefault exist on a dict only
HasGet(x) == IsDict(x)

RECURSIVE KeySeq(_)
KeySeq(S) ==
  IF S = {} THEN << >>
  ELSE LET k == KeyPick(S) IN <<PyStr(k)>> \o KeySeq(S \ {k})

\* iter(x): the elements a for loop visits; an int, a bool or None is not
\* iterable
IterItems(x) ==
  CASE x.t = "list" -> x.v
    [] x.t = "str" -> [i \in 1..Len(x.v) |-> PyStr(<<x.v[i]>>)]
    [] x.t = "dict" -> KeySeq(DOMAIN x.v)
    [] OTHER -> << >>

Iterable(x) == x.t \in {"list", "str", "dict"}

\* int(text): optional surrounding whitespace, optional sign, digits
IntOfText(cs) ==
  LET w == Strip(cs)
      signed == Len(w) > 0 /\ w[1] \in {"-", "+"}
      b == IF signed THEN 2 ELSE 1
      e == DigitsEnd(w, b)
      n == DigitsValue(w, b, e, 0)
  IN  IF e = b \/ e # Len(w) + 1 THEN Raised("ValueError")
      ELSE Returned(PyInt(IF signed /\ w[1] = "-" THEN 0 - n ELSE n))

\* int(x)
py_int(x) ==
  CASE x.t = "int" -> Returned(x)
    [] x.t = "bool" -> Returned(PyInt(IF x.v THEN 1 ELSE 0))
    [] x.t = "str" -> IntOfText(x.v)
    [] OTHER -> Raised("TypeError")

\* repr(x) and str(x) as text
RECURSIVE py_repr(_)
RECURSIVE ReprItems(_, _)
RECURSIVE ReprMembers(_, _)
ReprItems(xs, i) ==
  IF i > Len(xs) THEN << >>
  ELSE (IF i > 1 THEN <<",", " ">> ELSE << >>) \o py_repr(xs[i])
       \o ReprItems(xs, i + 1)

ReprMembers(f, keys) ==
  IF keys = {} THEN << >>
  ELSE LET k == KeyPick(keys)
       IN  (IF keys # DOMAIN f THEN <<",", " ">> ELSE << >>)
           \o <<"'">> \o k \o <<"'", ":", " ">> \o py_repr(f[k])
           \o ReprMembers(f, keys \ {k})

py_repr(x) ==
  CASE x.t = "none" -> <<"N", "o", "n", "e">>
    [] x.t = "bool" -> IF x.v THEN <<"T", "r", "u", "e">>
                       ELSE <<"F", "a", "l", "s", "e">>
    [] x.t = "int" -> IntText(x.v)
    [] x.t = "str" -> <<"'">> \o x.v \o <<"'">>
    [] x.t = "list" -> <<"[">> \o ReprItems(x.v, 1) \o <<"]">>
    [] x.t = "dict" -> <<"{">> \o ReprMembers(x.v, DOMAIN x.v) \o <<"}">>

py_str(x) == IF IsStr(x) THEN x ELSE PyStr(py_repr(x))

(***************************************************************************)
(* The environment of one analysis invocation: the GROQ_API_KEY variable,  *)
(* what the Streamlit secrets lookup yields, and what llm.invoke does      *)
(* (raise, or return a reply with this content).                           *)
(***************************************************************************)
get_groq_api_key(env) ==
  IF Truthy(env.GROQ_API_KEY) THEN env.GROQ_API_KEY ELSE env.secrets

\* the result of an invocation: ok/val/err as above, the number of calls
\* made to the LLM service, and the value safe_json_loads returned
Outcome(r, calls, parsed) ==
  [ok |-> r.ok, val |-> r.val, err |-> r.err, calls |-> calls,
   parsed |-> parsed]

\* the error of the first element that raised, or the list of the values
FirstError(rs) ==
  IF \E i \in 1..Len(rs) : ~rs[i].ok
    THEN rs[CHOOSE i \in 1..Len(rs) :
              ~rs[i].ok /\ \A j \in 1..(i - 1) : rs[j].ok]
    ELSE Returned(PyList([i \in 1..Len(rs) |-> rs[i].val]))

(***************************************************************************)
(* analyze_code_with_llm                                                   *)
(***************************************************************************)
\* NormalizeStep with enumerate(steps) counting from 0
NormalizeStep_zero_based(step, i) ==
  IF ~HasGet(step) THEN Raised("AttributeError")
  ELSE Returned(PyDict(
         (K_step :> DictGet(step, K_step, PyInt(i - 1)))
      @@ (K_line :> DictGet(step, K_line, PyNone))
      @@ (K_operation :> DictGet(step, K_operation, EmptyStr))
      @@ (K_explanation :> DictGet(step, K_explanation, EmptyStr))
      @@ (K_variables :> DictGet(step, K_variables, EmptyDict))
      @@ (K_call_stack :> DictGet(step, K_call_stack, EmptyList))
      @@ (K_outputs :> DictGet(step, K_outputs, EmptyStr))
      @@ (K_memory_state :> DictGet(step, K_memory_state, EmptyDict))
      @@ (K_control_flow :> DictGet(step, K_control_flow, EmptyStr))
      @@ (K_data_structures :> DictGet(step, K_data_structures, EmptyDict))
      @@ (K_execution_context :> DictGet(step, K_execution_context, EmptyStr))
      @@ (K_next_action :> DictGet(step, K_next_action, EmptyStr))))

\* NormalizeStep filling the defaults into a copy of the model's step
NormalizeStep_keep_all(step, i) ==
  IF ~HasGet(step) THEN Raised("AttributeError")
  ELSE Returned(PyDict(
         step.v
      @@ (K_step :> PyInt(i))
      @@ (K_line :> PyNone)
      @@ (K_operation :> EmptyStr)
      @@ (K_explanation :> EmptyStr)
      @@ (K_variables :> EmptyDict)
      @@ (K_call_stack :> EmptyList)
      @@ (K_outputs :> EmptyStr)
      @@ (K_memory_state :> EmptyDict)
      @@ (K_control_flow :> EmptyStr)
      @@ (K_data_structures :> EmptyDict)
      @@ (K_execution_context :> EmptyStr)
      @@ (K_next_action :> EmptyStr)))

NormalizeStep(step, i) ==
  IF ~HasGet(step) THEN Raised("AttributeError")
  ELSE Returned(PyDict(
         (K_step :> DictGet(step, K_step, PyInt(i)))
      @@ (K_line :> DictGet(step, K_line, PyNone))
      @@ (K_operation :> DictGet(step, K_operation, EmptyStr))
      @@ (K_explanation :> DictGet(step, K_explanation, EmptyStr))
      @@ (K_variables :> DictGet(step, K_variables, EmptyDict))
      @@ (K_call_stack :> DictGet(step, K_call_stack, EmptyList))
      @@ (K_outputs :> DictGet(step, K_outputs, EmptyStr))
      @@ (K_memory_state :> DictGet(step, K_memory_state, EmptyDict))
      @@ (K_control_flow :> DictGet(step, K_control_flow, EmptyStr))
      @@ (K_data_structures :> DictGet(step, K_data_structures, EmptyDict))
      @@ (K_execution_context :> DictGet(step, K_execution_context, EmptyStr))
      @@ (K_next_action :> DictGet(step, K_next_action, EmptyStr))))

\* ShapeTrace writing the request's language over the one the reply gives
ShapeTrace_request_language(parsed, language) ==
  IF ~HasGet(parsed) THEN Raised("AttributeError")
  ELSE
    LET result == DictSetDefault(DictSet(parsed, K_language, language),
                                 K_summary, EmptyStr)
        steps == PyOr(DictGet(result, K_steps, EmptyList), EmptyList)
        items == IterItems(steps)
        normalized_steps ==
          FirstError([i \in 1..Len(items) |-> NormalizeStep(items[i], i)])
    IN  IF ~Iterable(steps) THEN Raised("TypeError")
        ELSE IF ~normalized_steps.ok THEN normalized_steps
        ELSE Returned(DictSet(result, K_steps, normalized_steps.val))

\* lines 170-194: the shaping of the parsed reply
ShapeTrace(parsed, language) ==
  IF ~HasGet(parsed) THEN Raised("AttributeError")
  ELSE
    LET result == DictSetDefault(DictSetDefault(parsed, K_language, language),
                                 K_summary, EmptyStr)
        steps == PyOr(DictGet(result, K_steps, EmptyList), EmptyList)
        items == IterItems(steps)
        normalized_steps ==
          FirstError([i \in 1..Len(items) |-> NormalizeStep(items[i], i)])
    IN  IF ~Iterable(steps) THEN Raised("TypeError")
        ELSE IF ~normalized_steps.ok THEN normalized_steps
        ELSE Returned(DictSet(result, K_steps, normalized_steps.val))

\* analyze_code_with_llm asking the service again when the reply does not
\* parse
analyze_code_with_llm_retry(code_text, language, env) ==
  LET api_key == get_groq_api_key(env)
      shaped(result) ==
        IF ~result.ok THEN Outcome(Raised("JSONDecodeError"), 2, PyNone)
        ELSE Outcome(ShapeTrace(result.val, language), 1, result.val)
  IN  IF ~Truthy(api_key) THEN Outcome(Raised("RuntimeError"), 0, PyNone)
      ELSE IF env.reply.raised THEN Outcome(Raised("ServiceError"), 1, PyNone)
      ELSE shaped(safe_json_loads(env.reply.content))

analyze_code_with_llm(code_text, language, env) ==
  LET api_key == get_groq_api_key(env)
      shaped(result) ==
        IF ~result.ok THEN Outcome(Raised("JSONDecodeError"), 1, PyNone)
        ELSE Outcome(ShapeTrace(result.val, language), 1, result.val)
  IN  IF ~Truthy(api_key) THEN Outcome(Raised("RuntimeError"), 0, PyNone)
      ELSE IF env.reply.raised THEN Outcome(Raised("ServiceError"), 1, PyNone)
      ELSE shaped(safe_json_loads(env.reply.content))

(***************************************************************************)
(* analyze_errors_with_llm                                                 *)
(***************************************************************************)
\* NormalizeIssue reading explanation and suggestion without a default
NormalizeIssue_no_default(issue) ==
  IF ~HasGet(issue) THEN Raised("AttributeError")
  ELSE
    LET line == py_int(PyOr(DictGet(issue, K_line, PyInt(0)), PyInt(0)))
    IN  IF ~line.ok THEN line
        ELSE Returned(PyDict(
               (K_type :> py_str(DictGet(issue, K_type, S_logic)))
            @@ (K_line :> line.val)
            @@ (K_title :> DictGet(issue, K_title, S_potential_issue))
            @@ (K_explanation :> DictGet(issue, K_explanation, PyNone))
            @@ (K_suggestion :> DictGet(issue, K_suggestion, PyNone))))

NormalizeIssue(issue) ==
  IF ~HasGet(issue) THEN Raised("AttributeError")
  ELSE
    LET line == py_int(PyOr(DictGet(issue, K_line, PyInt(0)), PyInt(0)))
    IN  IF ~line.ok THEN line
        ELSE Returned(PyDict(
               (K_type :> py_str(DictGet(issue, K_type, S_logic)))
            @@ (K_line :> line.val)
            @@ (K_title :> DictGet(issue, K_title, S_potential_issue))
            @@ (K_explanation :> DictGet(issue, K_explanation, EmptyStr))
            @@ (K_suggestion :> DictGet(issue, K_suggestion, EmptyStr))))

\* lines 256-271
ShapeErrors(parsed) ==
  IF ~HasGet(parsed) THEN Raised("AttributeError")
  ELSE
    LET issues == PyOr(DictGet(parsed, K_issues, EmptyList), EmptyList)
        items == IterItems(issues)
        normalized ==
          FirstError([i \in 1..Len(items) |-> NormalizeIssue(items[i])])
        corrected_code ==
          PyOr(DictGet(parsed, K_corrected_code, EmptyStr), EmptyStr)
    IN  IF ~Iterable(issues) THEN Raised("TypeError")
        ELSE IF ~normalized.ok THEN normalized
        ELSE Returned(PyDict((K_issues :> normalized.val)
                          @@ (K_corrected_code :> corrected_code)))

analyze_errors_with_llm(code_text, language, env) ==
  LET api_key == get_groq_api_key(env)
      shaped(parsed) ==
        IF ~parsed.ok THEN Outcome(Raised("JSONDecodeError"), 1, PyNone)
        ELSE Outcome(ShapeErrors(parsed.val), 1, parsed.val)
  IN  IF ~Truthy(api_key) THEN Outcome(Raised("RuntimeError"), 0, PyNone)
      ELSE IF env.reply.raised THEN Outcome(Raised("ServiceError"), 1, PyNone)
      ELSE shaped(safe_json_loads(env.reply.content))

(***************************************************************************)
(* analyze_complexity_with_llm                                             *)
(***************************************************************************)
NormalizeFunction(fn) ==
  IF ~HasGet(fn) THEN Raised("AttributeError")
  ELSE Returned(PyDict(
         (K_name :> DictGet(fn, K_name, S_main))
      @@ (K_time_complexity :> DictGet(fn, K_time_complexity, S_O1))
      @@ (K_space_complexity :> DictGet(fn, K_space_complexity, S_O1))
      @@ (K_notes :> DictGet(fn, K_notes, EmptyStr))
      @@ (K_loops :> DictGet(fn, K_loops, EmptyList))
      @@ (K_recursions :> DictGet(fn, K_recursions, EmptyList))))

\* lines 331-345
ShapeComplexity(parsed) ==
  IF ~HasGet(parsed) THEN Raised("AttributeError")
  ELSE
    LET functions == PyOr(DictGet(parsed, K_functions, EmptyList), EmptyList)
        items == IterItems(functions)
        normalized ==
          FirstError([i \in 1..Len(items) |-> NormalizeFunction(items[i])])
    IN  IF ~Iterable(functions) THEN Raised("TypeError")
        ELSE IF ~normalized.ok THEN normalized
        ELSE Returned(PyDict(K_functions :> normalized.val))

\* analyze_complexity_with_llm testing the credential after the call
analyze_complexity_with_llm_late_check(code_text, language, env) ==
  LET api_key == get_groq_api_key(env)
      shaped(parsed) ==
        IF ~parsed.ok THEN Outcome(Raised("JSONDecodeError"), 1, PyNone)
        ELSE Outcome(ShapeComplexity(parsed.val), 1, parsed.val)
  IN  IF env.reply.raised THEN Outcome(Raised("ServiceError"), 1, PyNone)
      ELSE IF ~Truthy(api_key) THEN Outcome(Raised("RuntimeError"), 1, PyNone)
      ELSE shaped(safe_json_loads(env.reply.content))

analyze_complexity_with_llm(code_text, language, env) ==
  LET api_key == get_groq_api_key(env)
      shaped(parsed) ==
        IF ~parsed.ok THEN Outcome(Raised("JSONDecodeError"), 1, PyNone)
        ELSE Outcome(ShapeComplexity(parsed.val), 1, parsed.val)
  IN  IF ~Truthy(api_key) THEN Outcome(Raised("RuntimeError"), 0, PyNone)
      ELSE IF env.reply.raised THEN Outcome(Raised("ServiceError"), 1, PyNone)
      ELSE shaped(safe_json_loads(env.reply.content))

(***************************************************************************)
(* Bounds and the inputs drawn from them                                   *)
(***************************************************************************)
\* the longest steps / issues / functions array of a reply
MaxItems == 2
\* the longest array inside a sample JSON object
MaxArrayLen == 2
\* the clock of the session runs from 0 to MaxTime
MaxTime == 6
\* the most calls to the LLM service in one behaviour of the session
MaxCalls == 2

SeqsUpTo(S, n) == UNION {[1..m -> S] : m \in 0..n}

Txt_a == <<"a">>
Txt_x == <<"x">>
Txt_12 == <<"1", "2">>
Txt_python == <<"p", "y", "t", "h", "o", "n">>
Txt_go == <<"g", "o">>
\* a key no schema of the analyzer names
K_zz == <<"z", "z">>

\* elements a model may put in "steps": mappings with and without the step
\* key, with a mistyped step, with an unrecognized key, with fields given
\* their default explicitly, and values that are not mappings
StepElems ==
  { EmptyDict,
    PyDict(K_line :> PyInt(1)),
    PyDict(K_step :> PyInt(7)),
    PyDict(K_step :> PyStr(Txt_a)),
    PyDict(K_step :> PyNone),
    PyDict((K_line :> PyInt(2)) @@ (K_zz :> PyInt(1))),
    PyDict((K_step :> PyInt(1)) @@ (K_operation :> PyStr(Txt_x))
           @@ (K_zz :> PyStr(Txt_a))),
    PyDict((K_line :> PyNone) @@ (K_operation :> EmptyStr)
           @@ (K_variables :> EmptyDict) @@ (K_call_stack :> EmptyList)),
    PyDict(K_operation :> PyNone),
    PyInt(1),
    PyStr(Txt_a) }

\* values of "steps" / "issues" / "functions" that are not arrays
NotArrays ==
  { PyNone, PyInt(0), PyInt(3), EmptyStr, PyStr(Txt_a), EmptyDict,
    PyDict(Txt_a :> PyInt(1)), PyBool(TRUE) }

TraceReplies ==
  {PyDict(K_steps :> PyList(xs)) : xs \in SeqsUpTo(StepElems, MaxItems)}
  \cup {PyDict((K_steps :> PyList(xs)) @@ (K_language :> PyStr(Txt_go))
               @@ (K_summary :> PyStr(Txt_x))) :
          xs \in SeqsUpTo(StepElems, 1)}
  \cup {PyDict(K_steps :> v) : v \in NotArrays}
  \cup {EmptyDict, PyDict(K_summary :> PyNone)}

IssueElems ==
  { EmptyDict,
    PyDict(K_line :> PyInt(4)),
    PyDict(K_line :> PyInt(-1)),
    PyDict(K_line :> PyInt(0)),
    PyDict(K_line :> PyNone),
    PyDict(K_line :> PyStr(Txt_12)),
    PyDict(K_line :> PyStr(Txt_a)),
    PyDict(K_line :> PyList(<<PyInt(1)>>)),
    PyDict(K_line :> PyBool(TRUE)),
    PyDict((K_type :> PyInt(5)) @@ (K_title :> PyStr(Txt_x))
           @@ (K_zz :> PyInt(1))),
    PyDict((K_type :> S_logic) @@ (K_line :> PyInt(0))
           @@ (K_title :> S_potential_issue) @@ (K_explanation :> EmptyStr)
           @@ (K_suggestion :> EmptyStr)),
    PyDict(K_type :> PyNone),
    PyInt(1) }

ErrorReplies ==
  {PyDict(K_issues :> PyList(xs)) : xs \in SeqsUpTo(IssueElems, MaxItems)}
  \cup {PyDict((K_issues :> PyList(xs)) @@ (K_corrected_code :> v)) :
          xs \in SeqsUpTo(IssueElems, 1), v \in {PyNone, PyStr(Txt_x)}}
  \cup {PyDict(K_issues :> v) : v \in NotArrays}

FunctionElems ==
  { EmptyDict,
    PyDict(K_name :> PyStr(Txt_x)),
    PyDict((K_name :> S_main) @@ (K_time_complexity :> S_O1)
           @@ (K_space_complexity :> S_O1) @@ (K_notes :> EmptyStr)
           @@ (K_loops :> EmptyList) @@ (K_recursions :> EmptyList)),
    PyDict((K_loops :> PyNone) @@ (K_zz :> PyInt(1))),
    PyStr(Txt_a) }

ComplexityReplies ==
  {PyDict(K_functions :> PyList(xs)) :
     xs \in SeqsUpTo(FunctionElems, MaxItems)}
  \cup {PyDict(K_functions :> v) : v \in NotArrays}

\* a reply in a json-tagged fenced block, with a comma after the only step
\* and no step key
Txt_adds ==
  <<"a", "d", "d", "s", " ", "t", "w", "o", " ",
    "n", "u", "m", "b", "e", "r", "s">>
Txt_assign == <<"a", "s", "s", "i", "g", "n">>
ExampleBody ==
  <<"{", QUOTE>> \o K_language \o <<QUOTE, ":", QUOTE>> \o Txt_python
  \o <<QUOTE, ",", QUOTE>> \o K_summary \o <<QUOTE, ":", QUOTE>> \o Txt_adds
  \o <<QUOTE, ",", QUOTE>> \o K_steps \o <<QUOTE, ":", "[", "{", QUOTE>>
  \o K_line \o <<QUOTE, ":", "1", ",", QUOTE>> \o K_operation
  \o <<QUOTE, ":", QUOTE>> \o Txt_assign \o <<QUOTE, "}", ",", "]", "}">>
ExampleReply ==
  Fence \o <<"j", "s", "o", "n", NL>> \o ExampleBody \o <<NL>> \o Fence
\* an object with prose around it, and a text whose last "}" comes before
\* its first "{"
WrappedReply ==
  <<"n", "o", " ">> \o json_dumps(PyDict(K_steps :> PyList(<<EmptyDict>>)))
  \o <<" ", "x">>
BackwardsReply == <<"}", "x", "{">>

\* reply texts that are not the JSON text of an object: prose, nothing, an
\* array, a scalar, a fenced and a truncated reply
ProseTexts ==
  { << >>,
    <<"n", "o">>,
    <<"[", "1", "]">>,
    <<"7">>,
    <<"n", "u", "l", "l">>,
    Fence \o <<"j", "s", "o", "n", NL>>
      \o json_dumps(PyDict(K_steps :> PyList(<<EmptyDict>>)))
      \o <<NL>> \o Fence,
    <<"{", QUOTE>> \o K_steps \o <<QUOTE, ":", "[", "{", "}", ",">>,
    <<"{", QUOTE>> \o K_issues \o <<QUOTE, ":", "[", "{", "}", ",", "]", "}">>,
    ExampleReply,
    WrappedReply,
    BackwardsReply }

ReplyTexts ==
  {json_dumps(r) : r \in TraceReplies \cup ErrorReplies \cup ComplexityReplies}
  \cup ProseTexts

\* GROQ_API_KEY and the secrets lookup: unset, empty, or a key
Credentials == {PyNone, EmptyStr, PyStr(<<"k">>)}
Languages == {PyStr(Txt_python), PyStr(Txt_go)}
Codes == {<< >>, <<"x">>}

Replies ==
  {[raised |-> TRUE, content |-> << >>]}
  \cup {[raised |-> FALSE, content |-> c] : c \in ReplyTexts}

Envs ==
  {[GROQ_API_KEY |-> k, secrets |-> s, reply |-> r] :
     k \in Credentials, s \in Credentials, r \in Replies}

(***************************************************************************)
(* State                                                                   *)
(***************************************************************************)
VARIABLES
  code,          \* st.session_state.code, a text
  language,      \* st.session_state.language
  analysis,      \* st.session_state.analysis: PyNone or the trace record
  steps,         \* st.session_state.steps: the list, as a sequence
  current_step,  \* st.session_state.current_step
  playing,       \* st.session_state.playing
  last_tick,     \* st.session_state.last_tick
  now,           \* time.time(), in seconds
  llm_calls,     \* calls of llm.invoke made so far
  last,          \* the most recent analysis invocation and its outcome
  request,       \* the invocation an analyze operation is applied to
  sample,        \* the JSON object safe_json_loads is tried on
  load           \* the text given to safe_json_loads and what it returned

session == <<code, language, analysis, steps, current_step, playing,
             last_tick, now>>
vars == <<code, language, analysis, steps, current_step, playing, last_tick,
          now, llm_calls, last, request, sample, load>>

\* st.session_state.autoplay_interval
AutoplayInterval == 3

Idle == [op |-> "none"]
NoRequest == [language |-> PyStr(Txt_python), env |-> [GROQ_API_KEY |-> PyNone,
              secrets |-> PyNone, reply |-> [raised |-> TRUE, content |-> << >>]]]
NoLoad == [variant |-> "none"]

\* lines 69-85: the session state of a new session
SessionInit ==
  /\ code = << >>
  /\ language = PyStr(Txt_python)
  /\ analysis = PyNone
  /\ steps = << >>
  /\ current_step = 0
  /\ playing = FALSE
  /\ now = 0
  /\ last_tick = now
  /\ llm_calls = 0
  /\ last = Idle

(***************************************************************************)
(* The three analyze operations, each applied to the request drawn at the  *)
(* start                                                                   *)
(***************************************************************************)
Requests == {[language |-> l, env |-> e] : l \in Languages, e \in Envs}

InitAnalyze ==
  /\ SessionInit
  /\ request \in Requests
  /\ sample = EmptyDict
  /\ load = NoLoad

Invoked(op, out) ==
  /\ last' = [op |-> op, out |-> out]
  /\ llm_calls' = llm_calls + out.calls
  /\ UNCHANGED <<session, request, sample, load>>

CallAnalyzeCode ==
  /\ last = Idle
  /\ Invoked("code", analyze_code_with_llm(<<"x">>, request.language,
                                           request.env))

CallAnalyzeErrors ==
  /\ last = Idle
  /\ Invoked("errors", analyze_errors_with_llm(<<"x">>, request.language,
                                               request.env))

CallAnalyzeComplexity ==
  /\ last = Idle
  /\ Invoked("complexity", analyze_complexity_with_llm(<<"x">>,
                                        request.language, request.env))

NextAnalyze == CallAnalyzeCode \/ CallAnalyzeErrors \/ CallAnalyzeComplexity

SpecAnalyze == InitAnalyze /\ [][NextAnalyze]_vars

(***************************************************************************)
(* safe_json_loads applied to the texts of a sample JSON object: its JSON  *)
(* text, that text in a fenced block, with a trailing comma, and cut off   *)
(* inside an array                                                         *)
(***************************************************************************)
Leaves == {PyInt(1), PyStr(Txt_x), PyNone}
ArrayElems == Leaves \cup {PyDict(Txt_a :> PyInt(2))}
Arrays == {PyList(xs) : xs \in SeqsUpTo(ArrayElems, MaxArrayLen)}
MemberValues ==
  Leaves \cup Arrays
  \cup { EmptyDict, PyDict(Txt_x :> PyList(<<PyInt(1)>>)), PyStr(<<"}">>),
         PyBool(FALSE), PyInt(-12) }
SecondValues ==
  { PyInt(1), PyStr(<<"}">>), EmptyDict, PyList(<<PyNone>>),
    PyDict(Txt_x :> PyList(<<PyInt(1)>>)) }
SampleObjects ==
  {EmptyDict}
  \cup {PyDict(Txt_a :> v) : v \in MemberValues}
  \cup {PyDict((Txt_a :> v) @@ (K_steps :> w)) :
          v \in MemberValues, w \in SecondValues}

\* position i of s lies inside a string literal (the texts hold no escapes)
InString(s, i) == Cardinality({j \in 1..(i - 1) : s[j] = QUOTE}) % 2 = 1
\* the positions of c in s outside string literals
Structural(s, c) == {i \in 1..Len(s) : s[i] = c /\ ~InString(s, i)}
\* the prefixes of s that end inside an array
MidArrayCuts(s) ==
  {p \in 1..(Len(s) - 1) :
     Cardinality({i \in Structural(s, "[") : i <= p})
       > Cardinality({i \in Structural(s, "]") : i <= p})}

InitLoads ==
  /\ SessionInit
  /\ request = NoRequest
  /\ sample \in SampleObjects
  /\ load = NoLoad

Loaded(variant, text) ==
  /\ load = NoLoad
  /\ load' = [variant |-> variant, text |-> text,
              result |-> safe_json_loads(text)]
  /\ UNCHANGED <<session, llm_calls, last, request, sample>>

LoadValid == Loaded("valid", json_dumps(sample))

LoadFenced ==
  \E tag \in {<< >>, <<"j", "s", "o", "n">>} :
    Loaded("fenced",
           Fence \o tag \o <<NL>> \o json_dumps(sample) \o <<NL>> \o Fence)

LoadTrailingComma ==
  \E p \in Structural(json_dumps(sample), "}") :
    Loaded("comma",
           SubSeq(json_dumps(sample), 1, p - 1) \o <<",">>
           \o SubSeq(json_dumps(sample), p, Len(json_dumps(sample))))

LoadTruncated ==
  \E p \in MidArrayCuts(json_dumps(sample)) :
    Loaded("truncated", SubSeq(json_dumps(sample), 1, p))

NextLoads == LoadValid \/ LoadFenced \/ LoadTrailingComma \/ LoadTruncated

SpecLoads == InitLoads /\ [][NextLoads]_vars

(***************************************************************************)
(* The session of streamlit_app.py: one action per script run              *)
(***************************************************************************)
total_steps == Len(steps)
Max(a, b) == IF a >= b THEN a ELSE b
Min(a, b) == IF a <= b THEN a ELSE b
\* line 342
current_idx == Max(0, Min(current_step, total_steps - 1))

\* what the service may answer in a session
UiTexts ==
  { json_dumps(PyDict(K_steps :> PyList(<<PyDict(K_line :> PyInt(1))>>))),
    json_dumps(PyDict((K_summary :> PyStr(Txt_x))
       @@ (K_steps :> PyList(<<PyDict(K_line :> PyInt(1)),
                               PyDict(K_step :> PyInt(7))>>)))),
    Fence \o <<"j", "s", "o", "n", NL>>
      \o json_dumps(PyDict(K_steps :>
           PyList(<<EmptyDict, PyDict(K_line :> PyInt(2)), EmptyDict>>)))
      \o <<NL>> \o Fence,
    json_dumps(PyDict(K_steps :> EmptyList)),
    json_dumps(PyDict(K_steps :> PyList(<<EmptyDict, PyInt(1)>>))),
    <<"[", "1", "]">>,
    <<"n", "o">> }

UiEnvs ==
  {[GROQ_API_KEY |-> k, secrets |-> PyNone, reply |-> r] :
     k \in {PyNone, PyStr(<<"k">>)},
     r \in {[raised |-> TRUE, content |-> << >>]}
           \cup {[raised |-> FALSE, content |-> c] : c \in UiTexts}}

\* analyze_code_with_llm on the inputs of a session, evaluated once
UiOutcome ==
  [c \in Codes, l \in Languages, e \in UiEnvs |->
     analyze_code_with_llm(c, l, e)]

Init ==
  /\ SessionInit
  /\ request = NoRequest
  /\ sample = EmptyDict
  /\ load = NoLoad

\* the auto-advance block stepping past the last step without wrapping
AutoAdvanceBlock_no_wrap ==
  IF playing /\ total_steps > 0 /\ now - last_tick >= AutoplayInterval
    THEN /\ current_step' = current_idx + 1
         /\ last_tick' = now
    ELSE UNCHANGED <<current_step, last_tick>>

\* the auto-advance block stopping at the last step
AutoAdvanceBlock_stop_at_last ==
  IF /\ playing
     /\ total_steps > 0
     /\ now - last_tick >= AutoplayInterval
     /\ current_idx + 1 < total_steps
    THEN /\ current_step' = current_idx + 1
         /\ last_tick' = now
    ELSE UNCHANGED <<current_step, last_tick>>

\* lines 678-695: the auto-advance block at the end of a script run
AutoAdvanceBlock ==
  IF playing /\ total_steps > 0 /\ now - last_tick >= AutoplayInterval
    THEN /\ current_step' = (current_idx + 1) % total_steps
         /\ last_tick' = now
    ELSE UNCHANGED <<current_step, last_tick>>

\* lines 275-314, with the exception branch leaving the stored steps
AnalyzeClicked_stale_steps ==
  /\ code # << >>
  /\ llm_calls < MaxCalls
  /\ \E env \in UiEnvs :
       LET out == UiOutcome[code, language, env]
       IN  /\ IF out.ok
                THEN /\ analysis' = out.val
                     /\ steps' = DictGet(out.val, K_steps, EmptyList).v
                ELSE /\ analysis' = PyNone
                     /\ steps' = steps
           /\ current_step' = 0
           /\ playing' = FALSE
           /\ last' = [op |-> "code", out |-> out]
           /\ llm_calls' = llm_calls + out.calls
  /\ UNCHANGED <<code, language, last_tick, now, request, sample, load>>

\* lines 275-314, with the new steps appended to the stored ones
AnalyzeClicked_merge_steps ==
  /\ code # << >>
  /\ llm_calls < MaxCalls
  /\ \E env \in UiEnvs :
       LET out == UiOutcome[code, language, env]
       IN  /\ IF out.ok
                THEN /\ analysis' = out.val
                     /\ steps' = steps \o DictGet(out.val, K_steps, EmptyList).v
                ELSE /\ analysis' = PyNone
                     /\ steps' = << >>
           /\ current_step' = 0
           /\ playing' = FALSE
           /\ last' = [op |-> "code", out |-> out]
           /\ llm_calls' = llm_calls + out.calls
  /\ UNCHANGED <<code, language, last_tick, now, request, sample, load>>

\* lines 275-314: the Analyze Code button, enabled while code is not empty
AnalyzeClicked ==
  /\ code # << >>
  /\ llm_calls < MaxCalls
  /\ \E env \in UiEnvs :
       LET out == UiOutcome[code, language, env]
       IN  /\ IF out.ok
                THEN /\ analysis' = out.val
                     /\ steps' = DictGet(out.val, K_steps, EmptyList).v
                ELSE /\ analysis' = PyNone
                     /\ steps' = << >>
           /\ current_step' = 0
           /\ playing' = FALSE
           /\ last' = [op |-> "code", out |-> out]
           /\ llm_calls' = llm_calls + out.calls
  /\ UNCHANGED <<code, language, last_tick, now, request, sample, load>>

\* a navigation button that leaves playing as it was
Navigate_keep_playing(target) ==
  /\ steps # << >>
  /\ current_step' = target
  /\ UNCHANGED <<code, language, analysis, steps, playing, last_tick, now,
                 llm_calls, last, request, sample, load>>

Navigate(target) ==
  /\ steps # << >>
  /\ current_step' = target
  /\ playing' = FALSE
  /\ UNCHANGED <<code, language, analysis, steps, last_tick, now, llm_calls,
                 last, request, sample, load>>

\* lines 366 and 381: the cursor the Prev and the Next button store
PrevTarget == (current_idx - 1) % total_steps
NextTarget == (current_idx + 1) % total_steps

\* lines 358-395: the buttons shown while steps is not empty
ClickFirst == Navigate(0)
\* the Prev button staying on the first step
ClickPrev_no_wrap == Navigate(Max(0, current_idx - 1))
ClickPrev == Navigate(PrevTarget)
\* the Next button stepping past the last step without wrapping
ClickNext_no_wrap == Navigate(current_idx + 1)
ClickNext == Navigate(NextTarget)
ClickLast == Navigate(total_steps - 1)
ClickReset == Navigate(0)

ClickPlayPause ==
  /\ steps # << >>
  /\ playing' = ~playing
  /\ last_tick' = now
  /\ UNCHANGED <<code, language, analysis, steps, current_step, now,
                 llm_calls, last, request, sample, load>>

\* a script run no button started: only the auto-advance block acts
Rerun ==
  /\ AutoAdvanceBlock
  /\ UNCHANGED <<code, language, analysis, steps, playing, now, llm_calls,
                 last, request, sample, load>>

\* line 258: the text area; the run it starts ends in the auto-advance block
EditCode ==
  /\ \E c \in Codes : c # code /\ code' = c
  /\ AutoAdvanceBlock
  /\ UNCHANGED <<language, analysis, steps, playing, now, llm_calls, last,
                 request, sample, load>>

\* line 237: the language selector
SelectLanguage ==
  /\ \E l \in Languages : l # language /\ language' = l
  /\ AutoAdvanceBlock
  /\ UNCHANGED <<code, analysis, steps, playing, now, llm_calls, last,
                 request, sample, load>>

\* time passes
Tick ==
  /\ now < MaxTime
  /\ now' = now + 1
  /\ UNCHANGED <<code, language, analysis, steps, current_step, playing,
                 last_tick, llm_calls, last, request, sample, load>>

Next ==
  \/ AnalyzeClicked
  \/ ClickFirst
  \/ ClickPrev
  \/ ClickPlayPause
  \/ ClickNext
  \/ ClickLast
  \/ ClickReset
  \/ Rerun
  \/ EditCode
  \/ SelectLanguage
  \/ Tick

Spec == Init /\ [][Next]_vars

(***************************************************************************)
(* The session with a clock that never stops.  The script reads the clock  *)
(* only in now - last_tick (line 684), so once now has reached MaxTime the *)
(* passing of time moves last_tick back instead; a difference that has     *)
(* reached MaxTime stays there.  While playing, every script run ends in   *)
(* st.rerun() (lines 691, 695), so the run of the auto-advance block is    *)
(* always scheduled again, and time passes.                                *)
(***************************************************************************)
TickOn ==
  /\ IF now < MaxTime
       THEN /\ now' = now + 1
            /\ last_tick' = last_tick
       ELSE /\ now' = now
            /\ last_tick' = Max(0, last_tick - 1)
  /\ UNCHANGED <<code, language, analysis, steps, current_step, playing,
                 llm_calls, last, request, sample, load>>

NextPlay ==
  \/ AnalyzeClicked
  \/ ClickFirst
  \/ ClickPrev
  \/ ClickPlayPause
  \/ ClickNext
  \/ ClickLast
  \/ ClickReset
  \/ Rerun
  \/ EditCode
  \/ SelectLanguage
  \/ TickOn

SpecPlay ==
  Init /\ [][NextPlay]_vars /\ WF_vars(Rerun) /\ WF_vars(TickOn)

(***************************************************************************)
(* Properties of the analyze operations (SpecAnalyze)                      *)
(***************************************************************************)
Done == last # Idle
ApiKey == get_groq_api_key(request.env)
Content == request.env.reply.content
\* the invocation got as far as shaping a parsed JSON object
Shaped(op) == Done /\ last.op = op /\ IsDict(last.out.parsed)
\* the value the parsed reply gives for key, and its elements
Given(key) == DictGet(last.out.parsed, key, PyNone)
GivenItems(key) == Given(key).v
\* the parsed reply holds an array of mappings under key
ArrayOfMappings(op, key) ==
  /\ Shaped(op)
  /\ IsList(Given(key))
  /\ \A i \in 1..Len(GivenItems(key)) : IsDict(GivenItems(key)[i])
\* the records an invocation returned under key
ReturnedItems(key) == last.out.val.v[key].v

Recognized ==
  { K_step, K_line, K_operation, K_explanation, K_variables, K_call_stack,
    K_outputs, K_memory_state, K_control_flow, K_data_structures,
    K_execution_context, K_next_action }

\* C2: in each of the three analyze operations, an invocation for which
\* get_groq_api_key returns no credential (None or the empty string) fails
\* and the count of calls to the LLM service stays at zero.
Thm_C2_NoCallWithoutCredential ==
  (Done /\ ApiKey \in {PyNone, EmptyStr}) =>
    /\ ~last.out.ok
    /\ last.out.calls = 0
    /\ llm_calls = 0

Wit_C2_NoCallWithoutCredential ==
  /\ Done
  /\ last.op = "complexity"
  /\ request.env.GROQ_API_KEY = EmptyStr
  /\ request.env.secrets = PyNone
  /\ ~request.env.reply.raised
  /\ ~last.out.ok
  /\ llm_calls = 0

\* C3: when the steps array of the parsed reply has n mappings that all omit
\* the step key, analyze_code_with_llm returns n steps, the i-th made from
\* the i-th element, with step values 1, 2, ..., n.
Thm_C3_IndexBackfill ==
  (/\ ArrayOfMappings("code", K_steps)
   /\ \A i \in 1..Len(GivenItems(K_steps)) :
        K_step \notin DOMAIN GivenItems(K_steps)[i].v) =>
    /\ last.out.ok
    /\ Len(ReturnedItems(K_steps)) = Len(GivenItems(K_steps))
    /\ \A i \in 1..Len(GivenItems(K_steps)) :
         /\ ReturnedItems(K_steps)[i].v[K_step] = PyInt(i)
         /\ \A k \in DOMAIN GivenItems(K_steps)[i].v \cap Recognized :
              ReturnedItems(K_steps)[i].v[k] = GivenItems(K_steps)[i].v[k]

Wit_C3_IndexBackfill ==
  /\ ArrayOfMappings("code", K_steps)
  /\ Len(GivenItems(K_steps)) = 2
  /\ K_step \notin DOMAIN GivenItems(K_steps)[1].v
  /\ K_step \notin DOMAIN GivenItems(K_steps)[2].v
  /\ K_line \in DOMAIN GivenItems(K_steps)[2].v
  /\ K_line \notin DOMAIN GivenItems(K_steps)[1].v
  /\ last.out.ok
  /\ ReturnedItems(K_steps)[2].v[K_step] = PyInt(2)

\* C4 (as claimed): every step of every trace analyze_code_with_llm returns
\* has an integer step field, and a step value the model left out or gave as
\* something other than a number is replaced by the 1-based position.
Claim_C4_StepIsInteger ==
  (Done /\ last.op = "code" /\ last.out.ok) =>
    \A i \in 1..Len(ReturnedItems(K_steps)) :
      /\ IsInt(ReturnedItems(K_steps)[i].v[K_step])
      /\ ~IsInt(DictGet(GivenItems(K_steps)[i], K_step, PyNone)) =>
           ReturnedItems(K_steps)[i].v[K_step] = PyInt(i)

\* C5: when the steps of the parsed reply are mappings and one of them
\* carries a key outside the recognized set, analyze_code_with_llm succeeds,
\* no returned step has a key outside the recognized set, and every
\* recognized key that was present keeps its value.
Thm_C5_ExtraKeysDropped ==
  (/\ ArrayOfMappings("code", K_steps)
   /\ \E i \in 1..Len(GivenItems(K_steps)) :
        ~(DOMAIN GivenItems(K_steps)[i].v \subseteq Recognized)) =>
    /\ last.out.ok
    /\ Len(ReturnedItems(K_steps)) = Len(GivenItems(K_steps))
    /\ \A i \in 1..Len(GivenItems(K_steps)) :
         /\ DOMAIN ReturnedItems(K_steps)[i].v = Recognized
         /\ \A k \in DOMAIN GivenItems(K_steps)[i].v \cap Recognized :
              ReturnedItems(K_steps)[i].v[k] = GivenItems(K_steps)[i].v[k]

Wit_C5_ExtraKeysDropped ==
  /\ ArrayOfMappings("code", K_steps)
  /\ Len(GivenItems(K_steps)) = 2
  /\ K_zz \in DOMAIN GivenItems(K_steps)[2].v
  /\ K_operation \in DOMAIN GivenItems(K_steps)[2].v
  /\ last.out.ok
  /\ K_zz \notin DOMAIN ReturnedItems(K_steps)[2].v
  /\ ReturnedItems(K_steps)[2].v[K_operation] = PyStr(Txt_x)

\* the default each optional field takes when the model leaves it out, per
\* record type; the step index is not optional
StepDefaults ==
  (K_line :> PyNone) @@ (K_operation :> EmptyStr)
  @@ (K_explanation :> EmptyStr) @@ (K_variables :> EmptyDict)
  @@ (K_call_stack :> EmptyList) @@ (K_outputs :> EmptyStr)
  @@ (K_memory_state :> EmptyDict) @@ (K_control_flow :> EmptyStr)
  @@ (K_data_structures :> EmptyDict) @@ (K_execution_context :> EmptyStr)
  @@ (K_next_action :> EmptyStr)

IssueDefaults ==
  (K_type :> S_logic) @@ (K_line :> PyInt(0))
  @@ (K_title :> S_potential_issue) @@ (K_explanation :> EmptyStr)
  @@ (K_suggestion :> EmptyStr)

FunctionDefaults ==
  (K_name :> S_main) @@ (K_time_complexity :> S_O1)
  @@ (K_space_complexity :> S_O1) @@ (K_notes :> EmptyStr)
  @@ (K_loops :> EmptyList) @@ (K_recursions :> EmptyList)

ItemsKey(op) ==
  CASE op = "code" -> K_steps [] op = "errors" -> K_issues
    [] op = "complexity" -> K_functions

ItemDefaults(op) ==
  CASE op = "code" -> StepDefaults [] op = "errors" -> IssueDefaults
    [] op = "complexity" -> FunctionDefaults

\* the same mapping with every field it leaves out given its default
FillIn(item, defaults) ==
  PyDict([k \in DOMAIN item.v \cup DOMAIN defaults |->
            IF k \in DOMAIN item.v THEN item.v[k] ELSE defaults[k]])

\* the parsed reply with the optional fields of every element written out
FilledReply(op) ==
  DictSet(last.out.parsed, ItemsKey(op),
          PyList([i \in 1..Len(GivenItems(ItemsKey(op))) |->
                    FillIn(GivenItems(ItemsKey(op))[i], ItemDefaults(op))]))

ShapeOf(op, parsed) ==
  CASE op = "code" -> ShapeTrace(parsed, request.language)
    [] op = "errors" -> ShapeErrors(parsed)
    [] op = "complexity" -> ShapeComplexity(parsed)

\* a record was returned for a reply whose array is an array of mappings
ReturnedFor(op) == ArrayOfMappings(op, ItemsKey(op)) /\ last.out.ok

\* C6 (as claimed): in every record the three operations return, each
\* optional field the model left out holds an empty string, an empty
\* mapping or an empty sequence, never null.
Claim_C6_OmittedFieldsEmpty ==
  \A op \in {"code", "errors", "complexity"} :
    ReturnedFor(op) =>
      \A i \in 1..Len(GivenItems(ItemsKey(op))) :
        \A k \in DOMAIN ItemDefaults(op) \ DOMAIN GivenItems(ItemsKey(op))[i].v :
          ReturnedItems(ItemsKey(op))[i].v[k] \in {EmptyStr, EmptyDict, EmptyList}

\* C6 (amended): in every record the three operations return, each optional
\* field the model left out holds that field's default (null for a step's
\* line, "logic", 0 and "Potential issue" for an issue's type, line and
\* title, "main" and "O(1)" for a function's name and complexities, the
\* request's language for a trace's language, and an empty string, mapping
\* or sequence for the rest); and a reply that writes those defaults out
\* normalizes to the same record as the reply that leaves them out.
Thm_C6_OmittedFieldsDefaulted ==
  \A op \in {"code", "errors", "complexity"} :
    ReturnedFor(op) =>
      /\ \A i \in 1..Len(GivenItems(ItemsKey(op))) :
           \A k \in DOMAIN ItemDefaults(op) \ DOMAIN GivenItems(ItemsKey(op))[i].v :
             ReturnedItems(ItemsKey(op))[i].v[k] = ItemDefaults(op)[k]
      /\ (op = "code" /\ K_language \notin DOMAIN last.out.parsed.v) =>
           last.out.val.v[K_language] = request.language
      /\ (op = "code" /\ K_summary \notin DOMAIN last.out.parsed.v) =>
           last.out.val.v[K_summary] = EmptyStr
      /\ (op = "errors" /\ K_corrected_code \notin DOMAIN last.out.parsed.v) =>
           last.out.val.v[K_corrected_code] = EmptyStr
      /\ ShapeOf(op, FilledReply(op)) = Returned(last.out.val)

Wit_C6_OmittedFieldsDefaulted ==
  /\ ReturnedFor("errors")
  /\ Len(GivenItems(K_issues)) = 2
  /\ GivenItems(K_issues)[1] = EmptyDict
  /\ ReturnedItems(K_issues)[1] = PyDict(IssueDefaults)
  /\ FilledReply("errors") # last.out.parsed

\* C7 (as claimed): once the reply text has been parsed into a JSON object,
\* the shaping in the three analyze operations never raises.
Claim_C7_ShapingNeverRaises ==
  (Done /\ IsDict(last.out.parsed)) => last.out.ok

\* C8 (as claimed): every issue of every report analyze_errors_with_llm
\* returns has an integer line that is at least 0, and that is 0 when the
\* model left the line out or gave null.
Claim_C8_LineNonNegative ==
  (Done /\ last.op = "errors" /\ last.out.ok) =>
    \A i \in 1..Len(ReturnedItems(K_issues)) :
      /\ IsInt(ReturnedItems(K_issues)[i].v[K_line])
      /\ ReturnedItems(K_issues)[i].v[K_line].v >= 0
      /\ DictGet(GivenItems(K_issues)[i], K_line, PyNone) = PyNone =>
           ReturnedItems(K_issues)[i].v[K_line] = PyInt(0)

\* C9: one invocation makes at most one call to the LLM service; when the
\* service call fails, or the final parse of the repaired text fails, the
\* invocation ends in failure after that one call, returns no record, and
\* the failure is the outcome its caller gets.
Thm_C9_OneCallNoRetry ==
  Done =>
    /\ last.out.calls <= 1
    /\ llm_calls = last.out.calls
    /\ (/\ Truthy(ApiKey)
        /\ request.env.reply.raised \/ ~safe_json_loads(Content).ok) =>
         /\ ~last.out.ok
         /\ last.out.val = PyNone
         /\ last.out.calls = 1
         /\ last.out.err =
              (IF request.env.reply.raised THEN "ServiceError"
               ELSE "JSONDecodeError")

Wit_C9_OneCallNoRetry ==
  /\ Done
  /\ last.op = "code"
  /\ Truthy(ApiKey)
  /\ ~request.env.reply.raised
  /\ Len(Content) > 0
  /\ ~safe_json_loads(Content).ok
  /\ last.out.err = "JSONDecodeError"
  /\ llm_calls = 1

(***************************************************************************)
(* Properties of safe_json_loads (SpecLoads)                               *)
(***************************************************************************)
\* C1: for a JSON object J, safe_json_loads returns J when given J's JSON
\* text, that text in a fenced block (with or without the json tag), and
\* that text with one comma inserted before a closing brace; given the text
\* cut off inside an array it either fails or returns an object.
Thm_C1_FallbackLadder ==
  /\ load.variant \in {"valid", "fenced", "comma"} =>
       load.result = [ok |-> TRUE, val |-> sample]
  /\ load.variant = "truncated" =>
       (load.result.ok => IsDict(load.result.val))

Wit_C1_FallbackLadder ==
  /\ load.variant = "comma"
  /\ IsList(DictGet(sample, Txt_a, PyNone))
  /\ IsDict(DictGet(sample, K_steps, PyNone))
  /\ DictGet(sample, K_steps, PyNone) # EmptyDict
  /\ ~json_loads(load.text).ok
  /\ load.result.val = sample

(***************************************************************************)
(* Properties of the session (Spec)                                        *)
(***************************************************************************)
\* C10: after an analysis request that failed (missing credential, service
\* failure, unparseable reply, error during shaping) the session is in the
\* clean state: analysis is None, steps is empty, current_step is 0 and
\* playing is False, whatever it held before the request.
Thm_C10_CleanAfterFailure ==
  (last # Idle /\ ~last.out.ok) =>
    /\ analysis = PyNone
    /\ steps = << >>
    /\ current_step = 0
    /\ playing = FALSE

Wit_C10_CleanAfterFailure ==
  /\ last # Idle
  /\ last.out.err = "AttributeError"
  /\ llm_calls = 2
  /\ analysis = PyNone
  /\ steps = << >>

\* the analysis and the steps the most recent request leaves in the session
StoredAnalysis == IF last.out.ok THEN last.out.val ELSE PyNone
StoredSteps == IF last.out.ok THEN last.out.val.v[K_steps].v ELSE << >>

\* C11: after any sequence of analysis requests the stored analysis and
\* steps are exactly those of the most recent request (None and empty if it
\* failed), with nothing of an earlier record kept, and the step of a
\* request leaves current_step at 0 and playing False.
Thm_C11_LatestRequestOnly ==
  /\ [](last # Idle => (analysis = StoredAnalysis /\ steps = StoredSteps))
  /\ [][(last' # last \/ llm_calls' # llm_calls) =>
          (current_step' = 0 /\ playing' = FALSE)]_vars

Wit_C11_LatestRequestOnly ==
  /\ last # Idle
  /\ llm_calls = 2
  /\ last.out.ok
  /\ Len(steps) = 1
  /\ analysis = last.out.val
  /\ now > 0

\* analyze_code_with_llm was given the example reply
ExampleGiven ==
  /\ Done
  /\ last.op = "code"
  /\ Truthy(ApiKey)
  /\ ~request.env.reply.raised
  /\ Content = ExampleReply

ExampleStepShort ==
  (K_step :> PyInt(1)) @@ (K_line :> PyInt(1))
  @@ (K_operation :> PyStr(Txt_assign)) @@ (K_explanation :> EmptyStr)
  @@ (K_variables :> EmptyDict) @@ (K_call_stack :> EmptyList)
  @@ (K_outputs :> EmptyStr)

ExampleStepFull ==
  ExampleStepShort
  @@ (K_memory_state :> EmptyDict) @@ (K_control_flow :> EmptyStr)
  @@ (K_data_structures :> EmptyDict) @@ (K_execution_context :> EmptyStr)
  @@ (K_next_action :> EmptyStr)

ExampleTrace(step) ==
  PyDict((K_language :> PyStr(Txt_python)) @@ (K_summary :> PyStr(Txt_adds))
         @@ (K_steps :> PyList(<<PyDict(step)>>)))

\* C12 (as claimed): for the example reply the trace normalization returns
\* exactly the record whose only step has the seven fields step, line,
\* operation, explanation, variables, call_stack and outputs.
Claim_C12_ExampleSevenFields ==
  ExampleGiven => last.out.val = ExampleTrace(ExampleStepShort)

\* C12 (amended): for the example reply the trace normalization returns the
\* record with the reply's language and summary whose only step has step 1,
\* line 1, operation "assign" and every other of the twelve recognized
\* fields at its default, memory_state, control_flow, data_structures,
\* execution_context and next_action included.
Thm_C12_ExampleTwelveFields ==
  ExampleGiven =>
    /\ last.out.ok
    /\ last.out.val = ExampleTrace(ExampleStepFull)

Wit_C12_ExampleTwelveFields ==
  /\ ExampleGiven
  /\ request.language = PyStr(Txt_go)
  /\ ~json_loads(ExampleBody).ok
  /\ last.out.ok
  /\ DOMAIN ReturnedItems(K_steps)[1].v = Recognized

\* C13 (as claimed): whenever safe_json_loads returns without raising, the
\* value it returns is a mapping, also for a text that is valid JSON with an
\* array, a string, a number or null at the top.
Claim_C13_ParsedIsMapping ==
  (/\ Done
   /\ Truthy(ApiKey)
   /\ ~request.env.reply.raised
   /\ safe_json_loads(Content).ok) =>
    /\ last.out.parsed = safe_json_loads(Content).val
    /\ IsDict(last.out.parsed)

\* the first and the last position of character c in text t (0 if none)
FirstOf(t, c) ==
  IF \E i \in 1..Len(t) : t[i] = c
    THEN CHOOSE i \in 1..Len(t) : t[i] = c /\ \A j \in 1..(i - 1) : t[j] # c
    ELSE 0
LastOf(t, c) ==
  IF \E i \in 1..Len(t) : t[i] = c
    THEN CHOOSE i \in 1..Len(t) :
           t[i] = c /\ \A j \in (i + 1)..Len(t) : t[j] # c
    ELSE 0
\* the inclusive span of t from its first "{" to its last "}", or t
BraceSpanOrAll(t) ==
  IF FirstOf(t, "{") # 0 /\ LastOf(t, "}") > FirstOf(t, "{")
    THEN [i \in 1..(LastOf(t, "}") - FirstOf(t, "{") + 1) |->
            t[FirstOf(t, "{") + i - 1]]
    ELSE t
\* the direct parse of the reply failed
DirectFailed ==
  /\ Done
  /\ Truthy(ApiKey)
  /\ ~request.env.reply.raised
  /\ ~json_loads(Content).ok

\* C14: when the direct parse fails, the candidate handed to the repair
\* pass is the span of the fence-stripped text from its first "{" to its
\* last "}" when both exist and the last "}" lies after the first "{", and
\* the whole fence-stripped text in every other case.
Thm_C14_BraceSpanCandidate ==
  DirectFailed =>
    /\ candidate(Content) = BraceSpanOrAll(_strip_code_fences(Content))
    /\ safe_json_loads(Content) = json_loads(repair_json(candidate(Content)))
    /\ last.out.ok => last.out.parsed = safe_json_loads(Content).val

Wit_C14_BraceSpanCandidate ==
  /\ DirectFailed
  /\ Content = WrappedReply
  /\ candidate(Content) = json_dumps(PyDict(K_steps :> PyList(<<EmptyDict>>)))
  /\ candidate(Content) # _strip_code_fences(Content)
  /\ last.out.ok

\* a reply with no "{" at all, and one with its last "}" before its first
\* "{", reach the repair pass whole
Wit_C14_WholeTextCandidate ==
  /\ DirectFailed
  /\ Content = BackwardsReply
  /\ candidate(Content) = BackwardsReply

\* C15: a script run that only reaches the auto-advance block changes
\* nothing but current_step and last_tick: when playing is True and at least
\* autoplay_interval has passed since last_tick it moves the cursor forward
\* by one step, wrapping after the last, and sets last_tick to now;
\* otherwise it changes nothing; it never calls the LLM or changes analysis,
\* steps, code, language or playing.
Thm_C15_AutoAdvanceFrame ==
  [][Rerun =>
       /\ IF playing /\ now - last_tick >= AutoplayInterval
            THEN /\ current_step' =
                      (IF current_step = Len(steps) - 1 THEN 0
                       ELSE current_step + 1)
                 /\ last_tick' = now
            ELSE /\ current_step' = current_step
                 /\ last_tick' = last_tick
       /\ analysis' = analysis
       /\ steps' = steps
       /\ code' = code
       /\ language' = language
       /\ playing' = playing
       /\ llm_calls' = llm_calls]_vars

\* auto-play has run to the last of three steps
Wit_C15_AutoAdvanceFrame ==
  /\ playing
  /\ Len(steps) = 3
  /\ current_step = 2
  /\ last_tick = MaxTime
  /\ now = MaxTime
  /\ llm_calls = 1

\* C16: in every reachable state of the session the stored current_step is
\* 0 when steps is empty and otherwise lies in 0 .. len(steps) - 1, so the
\* clamp of line 342 never moves it and the displayed step exists.
Thm_C16_CursorInRange ==
  /\ steps = << >> => current_step = 0
  /\ steps # << >> =>
       /\ current_step \in 0..(Len(steps) - 1)
       /\ current_idx = current_step

\* the cursor on the last of three steps after a click
Wit_C16_CursorInRange ==
  /\ Len(steps) = 3
  /\ current_step = 2
  /\ ~playing
  /\ last_tick = 0

\* a click on First, Prev, Next, Last or Reset, or an analysis request
StopsPlaying ==
  \/ ClickFirst
  \/ ClickPrev
  \/ ClickNext
  \/ ClickLast
  \/ ClickReset
  \/ AnalyzeClicked

\* C17: playing is True only while steps is non-empty; every click on
\* First, Prev, Next, Last or Reset and every analysis request leaves
\* playing False; and only the Play/Pause button turns it from False to
\* True, so playing is True only if none of those has happened since the
\* last Play press.
Thm_C17_PlayingOnlyAfterPlay ==
  /\ [](playing => steps # << >>)
  /\ [][StopsPlaying => ~playing']_vars
  /\ [][(~playing /\ playing') => ClickPlayPause]_vars
  /\ [][(current_step' # current_step /\ last_tick' = last_tick) =>
          ~playing']_vars

Wit_C17_PlayingOnlyAfterPlay ==
  /\ playing
  /\ Len(steps) = 2
  /\ current_step = 1
  /\ last_tick = 1
  /\ now = 2

\* C19: for every non-empty steps list and every cursor position, Prev
\* undoes Next and Next undoes Prev: after a Next click the cursor Prev
\* would store is the one the click started from, and likewise after a Prev
\* click; Next from the last step stores the first, Prev from the first
\* stores the last, and with a single step both store 0.
Thm_C19_NextPrevRoundTrip ==
  /\ [][ClickNext =>
          /\ PrevTarget' = current_step
          /\ current_step = Len(steps) - 1 => current_step' = 0
          /\ current_step < Len(steps) - 1 => current_step' = current_step + 1
          /\ Len(steps) = 1 => current_step' = 0]_vars
  /\ [][ClickPrev =>
          /\ NextTarget' = current_step
          /\ current_step = 0 => current_step' = Len(steps) - 1
          /\ current_step > 0 => current_step' = current_step - 1
          /\ Len(steps) = 1 => current_step' = 0]_vars

\* before any time has passed the cursor is on the second of two steps: a
\* Next or a Prev click from the first step put it there
Wit_C19_NextPrevRoundTrip ==
  /\ Len(steps) = 2
  /\ current_step = 1
  /\ ~playing
  /\ now = 0
  /\ PrevTarget = 0
  /\ NextTarget = 0

(***************************************************************************)
(* Properties of auto-play (SpecPlay)                                      *)
(***************************************************************************)
\* the index after i among n steps
After(i, n) == IF i + 1 = n THEN 0 ELSE i + 1
StepCounts == 1..3

\* C18: while playing stays True and time keeps passing, the cursor on any
\* step eventually moves to the next one, from the last step to the first,
\* so auto-play does not stop at the last step; and while playing stays True
\* the cursor never moves except to the next step, so none is skipped.
Thm_C18_AutoPlayVisitsAll ==
  /\ \A n \in StepCounts : \A i \in 0..(n - 1) :
       (playing /\ Len(steps) = n /\ current_step = i)
         ~> (~playing \/ (Len(steps) = n /\ current_step = After(i, n)
                             /\ last_tick = now))
  /\ [][(playing /\ playing' /\ current_step' # current_step) =>
          (steps' = steps /\ current_step' = After(current_step, Len(steps)))]_vars

\* auto-play back on the first of three steps
Wit_C18_AutoPlayVisitsAll ==
  /\ playing
  /\ Len(steps) = 3
  /\ current_step = 0
  /\ last_tick = MaxTime
  /\ now = MaxTime
  /\ llm_calls = 1

====
